---------------------------- MODULE Spec2Model ----------------------------
(***************************************************************************)
(* Model of the AISP benchmark evaluation pipeline:                        *)
(*   - BenchmarkSuite (benchmark/suites.py): the task catalog, loaded from *)
(*     a directory of JSON task records;                                   *)
(*   - LocalEvaluatorRunner (benchmark/evaluator.py): resolve the task,    *)
(*     hash-check the evaluator script, import it, instantiate             *)
(*     SpecificEvaluator and call evaluate;                                *)
(*   - SpecificEvaluator (evaluaters_examples/swe_bench_v1.py): the        *)
(*     evaluator that writes the raw log and builds PerformanceMetrics.    *)
(* The file system (the evaluator script, ./eval_logs), the interpreter's  *)
(* module cache and the process environment are part of the state.         *)
(***************************************************************************)
EXTENDS Naturals, Sequences, FiniteSets, TLC

(***************************************************************************)
(* Bounds of the model.                                                    *)
(***************************************************************************)
\* longest directory listing given to load_from_directory
MaxFiles == 4
\* number of calls of LocalEvaluatorRunner.run in one process
MaxRuns == 2
\* longest payload.performance_gain list of a submitted output
MaxGain == 1

VARIABLES
    tasks_dir,     \* the *.json records of the tasks directory, in glob order
    is_dir,        \* tasks_dir.is_dir()
    suite,         \* "unconstructed" | "ready" | "failed" : BenchmarkSuite(...)
    suite_exc,     \* the exception BenchmarkSuite.__init__ ended with
    _tasks,        \* BenchmarkSuite._tasks, in insertion order
    artifact,      \* content of the evaluator script on disk now
    sys_modules,   \* content the interpreter has cached for the module
    SWE_BENCH_ENV, \* whether the environment variable is set
    eval_logs,     \* ./eval_logs : path -> request id written in the log
    runs           \* one record per call of run

vars == <<tasks_dir, is_dir, suite, suite_exc, _tasks, artifact, sys_modules,
          SWE_BENCH_ENV, eval_logs, runs>>

None == "None"

(***************************************************************************)
(* Task records (AispTask / LocalEvaluatorInfo).                           *)
(***************************************************************************)
TaskIds == {"t1", "t2"}

\* the script of src/benchmark/evaluaters_examples, relative to benchmarks_root
CodePath == "evaluators/swe_bench_v1.py"

\* possible contents of the script: the pinned one, a rewritten one that still
\* defines SpecificEvaluator, a rewritten one that does not
Contents == {"genuine", "tampered", "noclass"}

\* hashlib.sha256(buf).hexdigest(): distinct contents, distinct digests
hexdigest(buf) ==
    CASE buf = "genuine"  -> "9f2c"
      [] buf = "tampered" -> "41ab"
      [] buf = "noclass"  -> "e07d"

\* the hash recorded in the task record when the script was pinned
PinnedHash == "sha256:" \o hexdigest("genuine")

LocalEvaluatorInfo(name) ==
    [evaluator_name |-> name, code_path |-> CodePath,
     verification_hash |-> PinnedHash]

\* a JSON record of the directory; valid = AispTask(**task_data) accepts it
TaskRecord(id, name, ok) ==
    [task_id |-> id, local_evaluator |-> LocalEvaluatorInfo(name), valid |-> ok]

TaskRecords ==
    { TaskRecord("t1", "swe_bench_v1", TRUE),
      TaskRecord("t2", "custom_eval", TRUE),
      TaskRecord("t2", "swe_bench_v1", FALSE) }

SeqsUpTo(S, n) == UNION { [1..k -> S] : k \in 0..n }

Directories == SeqsUpTo(TaskRecords, MaxFiles)

(***************************************************************************)
(* BenchmarkSuite                                                          *)
(***************************************************************************)
Keys(tasks) == { tasks[i].task_id : i \in 1..Len(tasks) }

\* `task.task_id in self._tasks` with only the last inserted key looked at
ContainsLastOnly(tasks, task_id) ==
    Len(tasks) > 0 /\ tasks[Len(tasks)].task_id = task_id

\* `task.task_id in self._tasks`
Contains(tasks, task_id) == task_id \in Keys(tasks)

\* the for loop of load_from_directory over the remaining files
RECURSIVE LoadFiles(_, _)
LoadFiles(tasks, files) ==
    IF files = <<>> THEN [tasks |-> tasks, exc |-> None]
    ELSE LET task_data == Head(files) IN
         IF ~task_data.valid
         THEN [tasks |-> tasks, exc |-> "ValidationError"]
         ELSE IF Contains(tasks, task_data.task_id)
         THEN [tasks |-> tasks, exc |-> "ValueError"]
         ELSE LoadFiles(Append(tasks, task_data), Tail(files))

load_from_directory(tasks, exists, files) ==
    IF ~exists THEN [tasks |-> tasks, exc |-> None]
    ELSE LoadFiles(tasks, files)

\* get_task returning the first task of the catalog for an unknown id
get_task_fallback(tasks, task_id) ==
    IF Contains(tasks, task_id)
    THEN (CHOOSE i \in 1..Len(tasks) : tasks[i].task_id = task_id)
    ELSE IF Len(tasks) > 0 THEN 1 ELSE 0

\* self._tasks.get(task_id): the index of the task, 0 for None
get_task(tasks, task_id) ==
    IF Contains(tasks, task_id)
    THEN (CHOOSE i \in 1..Len(tasks) : tasks[i].task_id = task_id)
    ELSE 0

\* BenchmarkSuite.__init__
BenchmarkSuite ==
    /\ suite = "unconstructed"
    /\ LET r == load_from_directory(<<>>, is_dir, tasks_dir) IN
         /\ _tasks' = r.tasks
         /\ suite_exc' = r.exc
         /\ suite' = IF r.exc = None THEN "ready" ELSE "failed"
    /\ UNCHANGED <<tasks_dir, is_dir, artifact, sys_modules, SWE_BENCH_ENV,
                   eval_logs, runs>>

(***************************************************************************)
(* ResearchOutput (protocals/output.py)                                    *)
(***************************************************************************)
RequestIds == <<"r1", "r2">>

\* ids a submitted output may name; "t9" is in no task record
NamedIds == TaskIds \cup {"t9"}

\* the five payload classes; performance_gain holds the task ids of the
\* PerformanceMetrics listed
Payloads ==
    { [type |-> "improvement", performance_gain |-> g] :
          g \in SeqsUpTo(NamedIds, MaxGain) }
    \cup { [type |-> t, performance_gain |-> <<>>] :
          t \in {"findings", "survey", "benchmark", "technique_report"} }

\* only ImprovementOutputPayload declares performance_gain; reading it from
\* one of the four other payload classes raises AttributeError
HasPerformanceGain(payload) == payload.type = "improvement"

\* ResearchOutput declares request_id, payload and logbook_path and no
\* research_type: has_research_type is FALSE for an instance of the class as
\* written, TRUE for an object that also carries the attribute (a subclass
\* mirroring payload.type).
ResearchOutputs ==
    [request_id : { RequestIds[i] : i \in 1..Len(RequestIds) },
     has_research_type : BOOLEAN, payload : Payloads]

Exc(type, at) == [type |-> type, at |-> at]

NoExc == Exc(None, None)

NoMetrics == [task_id |-> None, scores |-> None, raw_eval_log |-> None]

(***************************************************************************)
(* LocalEvaluatorRunner                                                    *)
(***************************************************************************)
\* run, lines 71-75: the governing task id, or the exception raised
ExtractTaskId(research_output) ==
    IF ~research_output.has_research_type
    THEN [task_id |-> None, exc |-> Exc("AttributeError", "evaluator.py:71")]
    ELSE IF research_output.payload.type \in {"improvement", "technique_report"}
    THEN LET gain == research_output.payload.performance_gain IN
         IF ~HasPerformanceGain(research_output.payload)
         THEN [task_id |-> None, exc |-> Exc("AttributeError", "evaluator.py:73")]
         ELSE IF Len(gain) = 0
         THEN [task_id |-> None, exc |-> Exc("IndexError", "evaluator.py:73")]
         ELSE [task_id |-> gain[1], exc |-> NoExc]
    ELSE [task_id |-> None, exc |-> Exc("ValueError", "evaluator.py:75")]

Absent == "absent"

\* _verify_integrity that reports a mismatch by its return value
verify_integrity_warn(content, expected_hash) ==
    IF content = Absent
    THEN [ok |-> FALSE, exc |-> Exc("FileNotFoundError", "evaluator.py:47")]
    ELSE [ok |-> ("sha256:" \o hexdigest(content)) = expected_hash, exc |-> NoExc]

\* _verify_integrity on the script's content now on disk. The name
\* SecurityError is bound nowhere in evaluator.py, so the raise statement of
\* line 57 ends in NameError.
_verify_integrity(content, expected_hash) ==
    IF content = Absent
    THEN [ok |-> FALSE, exc |-> Exc("FileNotFoundError", "evaluator.py:47")]
    ELSE LET actual_hash == "sha256:" \o hexdigest(content) IN
         IF actual_hash # expected_hash
         THEN [ok |-> FALSE, exc |-> Exc("NameError", "evaluator.py:57")]
         ELSE [ok |-> TRUE, exc |-> NoExc]

\* the task id of the first PerformanceMetrics the payload lists, if any
Named(payload) ==
    IF Len(payload.performance_gain) > 0 THEN payload.performance_gain[1]
    ELSE None

\* the locals of one call of run: request_id and named are what the call
\* keeps of research_output
IdleRun ==
    [pc |-> "idle", request_id |-> None, named |-> None, task_id |-> None,
     task |-> 0,
     n_verified |-> 0, hashed |-> None, n_imported |-> 0, module |-> None,
     n_instantiated |-> 0, n_evaluate |-> 0, exc |-> NoExc,
     metrics |-> NoMetrics]

Raise(run, e) == [run EXCEPT !.pc = "raised", !.exc = e]

\* request ids are opaque: a call carries an id an earlier call carried, or
\* the first id no call has carried yet
KnownOrNext(request_id) ==
    LET used == { runs[q].request_id : q \in 1..MaxRuns } IN
    \/ request_id \in used
    \/ \E i \in 1..Len(RequestIds) :
          /\ RequestIds[i] = request_id
          /\ \A j \in 1..(i - 1) : RequestIds[j] \in used

\* run, lines 69-79: extract the task id and look the task up; calls are
\* numbered in the order they begin
Resolve(r) ==
    /\ suite = "ready"
    /\ runs[r].pc = "idle"
    /\ \A q \in 1..(r - 1) : runs[q].pc # "idle"
    /\ \E research_output \in ResearchOutputs :
         /\ KnownOrNext(research_output.request_id)
         /\ LET x == ExtractTaskId(research_output)
                started == [runs[r] EXCEPT
                               !.request_id = research_output.request_id,
                               !.named = Named(research_output.payload),
                               !.task_id = x.task_id]
                task == get_task(_tasks, x.task_id)
            IN  runs' = [runs EXCEPT ![r] =
                    IF x.exc # NoExc THEN Raise(started, x.exc)
                    ELSE IF task = 0
                    THEN Raise(started, Exc("ValueError", "evaluator.py:79"))
                    ELSE [started EXCEPT !.pc = "verify", !.task = task]]
    /\ UNCHANGED <<tasks_dir, is_dir, suite, suite_exc, _tasks, artifact,
                   sys_modules, SWE_BENCH_ENV, eval_logs>>

\* run, lines 82-85: hash the script and compare with the pinned hash; the
\* value _verify_integrity returns is not looked at
Verify(r) ==
    /\ runs[r].pc = "verify"
    /\ LET evaluator_info == _tasks[runs[r].task].local_evaluator
           v == _verify_integrity(artifact, evaluator_info.verification_hash)
       IN  runs' = [runs EXCEPT ![r] =
               IF v.exc # NoExc
               THEN Raise([@ EXCEPT !.hashed = IF artifact = Absent THEN None
                                               ELSE artifact], v.exc)
               ELSE [@ EXCEPT !.pc = "load",
                              !.n_verified = IF v.ok THEN 1 ELSE 0,
                              !.hashed = artifact]]
    /\ UNCHANGED <<tasks_dir, is_dir, suite, suite_exc, _tasks, artifact,
                   sys_modules, SWE_BENCH_ENV, eval_logs>>

\* SpecificEvaluator.__init__ of the content: the pinned script needs
\* SWE_BENCH_ENV, a rewritten script does what its author chose (here: succeeds)
InitRaises(content) == content = "genuine" /\ ~SWE_BENCH_ENV

\* run, lines 89-100: import the module (from the interpreter's cache when it
\* is there, from the file as it is now otherwise), look SpecificEvaluator up
\* and instantiate it. Line 89 derives the module name from code_path, which
\* lies under benchmarks_root for every task record here. Only ImportError and
\* AttributeError are turned into the RuntimeError of line 100.
Load(r) ==
    /\ runs[r].pc = "load"
    /\ LET cached == sys_modules # None
           found == IF cached THEN sys_modules ELSE artifact
       IN  IF found = Absent
           THEN /\ runs' = [runs EXCEPT ![r] =
                       Raise(@, Exc("RuntimeError", "evaluator.py:100"))]
                /\ UNCHANGED sys_modules
           ELSE /\ sys_modules' = found
                /\ runs' = [runs EXCEPT ![r] =
                     LET imported == [@ EXCEPT !.n_imported = 1, !.module = found]
                     IN  IF found = "noclass"
                         THEN Raise(imported, Exc("RuntimeError", "evaluator.py:100"))
                         ELSE IF InitRaises(found)
                         THEN Raise([imported EXCEPT !.n_instantiated = 1],
                                    Exc("EnvironmentError", "swe_bench_v1.py:20"))
                         ELSE [imported EXCEPT !.n_instantiated = 1,
                                               !.pc = "evaluate"]]
    /\ UNCHANGED <<tasks_dir, is_dir, suite, suite_exc, _tasks, artifact,
                   SWE_BENCH_ENV, eval_logs>>

(***************************************************************************)
(* SpecificEvaluator.evaluate                                              *)
(***************************************************************************)
\* Path("./eval_logs") / f"{request_id}_raw.log"
output_log_path(request_id) == "./eval_logs/" \o request_id \o "_raw.log"

\* run line 104, evaluate lines 22-40: the call begins; the patch is applied
\* and the tests run in the environment SWE_BENCH_ENV names
EvaluateBegin(r) ==
    /\ runs[r].pc = "evaluate"
    /\ runs' = [runs EXCEPT ![r].pc = "evaluating", ![r].n_evaluate = 1]
    /\ UNCHANGED <<tasks_dir, is_dir, suite, suite_exc, _tasks, artifact,
                   sys_modules, SWE_BENCH_ENV, eval_logs>>

WriteLog(logs, path, request_id) ==
    [p \in DOMAIN logs \cup {path} |->
        IF p = path THEN [request_id |-> request_id, lines |-> 2] ELSE logs[p]]

\* evaluate lines 46-60, run lines 105-107: the log is written (open 'w'),
\* the metrics are built and returned
EvaluateEnd(r) ==
    /\ runs[r].pc = "evaluating"
    /\ LET request_id == runs[r].request_id
           path == output_log_path(request_id)
       IN  /\ eval_logs' = WriteLog(eval_logs, path, request_id)
           /\ runs' = [runs EXCEPT ![r].pc = "returned",
                   ![r].metrics =
                       [task_id |-> _tasks[runs[r].task].task_id,
                        scores |-> IF runs[r].module = "genuine"
                                   THEN "mock_scores" ELSE "forged",
                        raw_eval_log |-> path]]
    /\ UNCHANGED <<tasks_dir, is_dir, suite, suite_exc, _tasks, artifact,
                   sys_modules, SWE_BENCH_ENV>>

\* another process rewrites or removes the evaluator script
Overwrite ==
    /\ suite = "ready"
    /\ \E c \in Contents \cup {Absent} : c # artifact /\ artifact' = c
    /\ UNCHANGED <<tasks_dir, is_dir, suite, suite_exc, _tasks, sys_modules,
                   SWE_BENCH_ENV, eval_logs, runs>>

IdleRuns == [r \in 1..MaxRuns |-> IdleRun]

InitLoad ==
    /\ is_dir \in BOOLEAN
    /\ tasks_dir \in Directories
    /\ (~is_dir => tasks_dir = <<>>)
    /\ suite = "unconstructed"
    /\ suite_exc = None
    /\ _tasks = <<>>
    /\ artifact = "genuine"
    /\ sys_modules = None
    /\ SWE_BENCH_ENV = TRUE
    /\ eval_logs = <<>>
    /\ runs = IdleRuns

\* one listing per catalog: records in the order of their ids
Canonical(files) ==
    \A i \in 1..Len(files) :
        /\ files[i].valid
        /\ \A j \in 1..Len(files) : i < j =>
               (files[i].task_id = "t1" /\ files[j].task_id = "t2")

\* the state once `from aisp.benchmark.suites import StandardBenchmarks` has
\* succeeded: the catalog is loaded, no run has begun
Init ==
    /\ is_dir = TRUE
    /\ tasks_dir \in { d \in Directories : Canonical(d) }
    /\ suite = "ready"
    /\ suite_exc = None
    /\ _tasks = load_from_directory(<<>>, is_dir, tasks_dir).tasks
    /\ artifact = "genuine"
    /\ sys_modules = None
    /\ SWE_BENCH_ENV \in BOOLEAN
    /\ eval_logs = <<>>
    /\ runs = IdleRuns

Next ==
    \/ \E r \in 1..MaxRuns :
          Resolve(r) \/ Verify(r) \/ Load(r) \/ EvaluateBegin(r) \/ EvaluateEnd(r)
    \/ Overwrite

Spec == Init /\ [][Next]_vars

NextLoad == BenchmarkSuite

SpecLoad == InitLoad /\ [][NextLoad]_vars

(***************************************************************************)
(* Properties                                                              *)
(***************************************************************************)
Run == 1..MaxRuns

Ended(r) == runs[r].pc \in {"raised", "returned"}

\* the hash _verify_integrity computes for a content
Digest(content) == "sha256:" \o hexdigest(content)

\* the pinned hash of the task run r resolved
Pinned(r) == _tasks[runs[r].task].local_evaluator.verification_hash

\* C1: in every run, the script is imported, SpecificEvaluator instantiated
\* and evaluate called only after _verify_integrity of the same run has
\* succeeded.
C1_VerifyBeforeLoad ==
    \A r \in Run :
        (runs[r].n_imported > 0 \/ runs[r].n_instantiated > 0
            \/ runs[r].n_evaluate > 0)
        => runs[r].n_verified = 1

C1_Witness ==
    \E r \in Run :
        /\ runs[r].n_verified = 1
        /\ runs[r].n_imported = 1
        /\ runs[r].n_instantiated = 1
        /\ runs[r].n_evaluate = 1

\* C2: a run whose integrity check read a script whose digest differs from
\* the pinned hash ends with the integrity fault (SecurityError) and without
\* PerformanceMetrics.
C2_MismatchIsIntegrityFault ==
    \A r \in Run :
        (runs[r].task # 0 /\ runs[r].hashed # None
            /\ Digest(runs[r].hashed) # Pinned(r))
        => /\ runs[r].pc = "raised"
           /\ runs[r].exc.type = "SecurityError"
           /\ runs[r].metrics = NoMetrics

NamesCatalogTask(r) ==
    runs[r].named # None /\ Contains(_tasks, runs[r].named)

\* C4: a run on an output for a task T of the catalog, the script on disk
\* (and in the module cache) being the pinned one, returns PerformanceMetrics
\* with task_id T whose raw_eval_log exists and is not empty.
C4_ValidRunReturnsMetrics ==
    \A r \in Run :
        (Ended(r) /\ NamesCatalogTask(r) /\ artifact = "genuine"
            /\ sys_modules \in {None, "genuine"})
        => /\ runs[r].pc = "returned"
           /\ runs[r].metrics.task_id = runs[r].named
           /\ runs[r].metrics.raw_eval_log \in DOMAIN eval_logs
           /\ eval_logs[runs[r].metrics.raw_eval_log].lines > 0

\* the exceptions run raises on purpose: task not found, the integrity
\* fault, the script not found, the evaluator not loadable, evaluation not
\* applicable to the research type
TypedFaults ==
    { Exc("ValueError", "evaluator.py:79"),
      Exc("SecurityError", "evaluator.py:57"),
      Exc("FileNotFoundError", "evaluator.py:47"),
      Exc("RuntimeError", "evaluator.py:100"),
      Exc("ValueError", "evaluator.py:75") }

\* C5: every run that ends, ends with complete PerformanceMetrics or with
\* one of the typed faults, and a run that ends with a fault has no metrics.
C5_MetricsOrTypedFault ==
    \A r \in Run :
        /\ runs[r].pc = "returned" =>
              (runs[r].metrics # NoMetrics /\ runs[r].exc = NoExc)
        /\ runs[r].pc = "raised" =>
              (runs[r].exc \in TypedFaults /\ runs[r].metrics = NoMetrics)

\* C6: two runs of the same request (same request_id, same task) that both
\* returned have distinct raw_eval_log paths.
C6_DistinctLogPaths ==
    \A r, q \in Run :
        (r # q /\ runs[r].pc = "returned" /\ runs[q].pc = "returned"
            /\ runs[r].request_id = runs[q].request_id
            /\ runs[r].task_id = runs[q].task_id)
        => runs[r].metrics.raw_eval_log # runs[q].metrics.raw_eval_log

\* C7: two runs that are both inside evaluate of the pinned SpecificEvaluator
\* (which works in the shared environment SWE_BENCH_ENV names) are runs for
\* distinct task ids.
C7_OneEvaluationPerTask ==
    \A r, q \in Run :
        (r # q /\ runs[r].pc = "evaluating" /\ runs[q].pc = "evaluating"
            /\ runs[r].module = "genuine" /\ runs[q].module = "genuine")
        => runs[r].task_id # runs[q].task_id

\* the evaluator implementations the repository ships (swe_bench_v1.py)
RegisteredEvaluators == {"swe_bench_v1"}

\* C8: a run for a task whose evaluator_name names no registered evaluator
\* instantiates and executes no evaluator, and ends with a fault.
C8_UnregisteredNeverRuns ==
    \A r \in Run :
        (runs[r].task # 0
            /\ _tasks[runs[r].task].local_evaluator.evaluator_name
                  \notin RegisteredEvaluators)
        => /\ runs[r].n_instantiated = 0
           /\ runs[r].n_evaluate = 0
           /\ runs[r].pc # "returned"

HasDuplicateId(files) ==
    \E i, j \in 1..Len(files) : i # j /\ files[i].task_id = files[j].task_id

AllValid(files) == \A i \in 1..Len(files) : files[i].valid

\* C9: constructing the suite over a directory in which two records share a
\* task_id fails, whatever the order of the records and whatever lies
\* between the two; with every record well-formed the failure is the
\* ValueError of the duplicate check.
C9_DuplicateAlwaysFails ==
    (suite # "unconstructed" /\ HasDuplicateId(tasks_dir))
    => /\ suite = "failed"
       /\ suite_exc \in {"ValueError", "ValidationError"}
       /\ AllValid(tasks_dir) => suite_exc = "ValueError"

C9_Witness ==
    /\ suite = "failed"
    /\ suite_exc = "ValueError"
    /\ Len(tasks_dir) >= 3
    /\ tasks_dir[1].task_id = tasks_dir[3].task_id
    /\ tasks_dir[2].task_id # tasks_dir[1].task_id

\* C10: the content a run imports and instantiates is the content its
\* integrity check hashed.
C10_ExecutedIsHashed ==
    \A r \in Run :
        runs[r].n_instantiated > 0 => runs[r].module = runs[r].hashed

=============================================================================
